---- MODULE Spec2Model ----
(***************************************************************************)
(* A model of src/src/unittest_patterns/spies.py:                          *)
(*   - make_spy and the _SpyFactory it returns           (specification    *)
(*     Spec),                                                               *)
(*   - AsyncContextManagerMock                           (SpecAsync),      *)
(*   - is_subset_of                                      (SpecSubset).     *)
(* The wrapper the factory instantiates is unittest.mock's MagicMock (or a *)
(* subclass); the part of its behaviour the factory relies on (spec /      *)
(* spec_set / wraps / configure_mock / call recording) is modelled by the  *)
(* Mock* operators below as CPython 3.11 (the repository's default Python) *)
(* executes it.                                                            *)
(***************************************************************************)
EXTENDS Integers, Sequences, FiniteSets, TLC

VARIABLES
    \* ---- make_spy / _SpyFactory ----
    target,      \* the object handed to make_spy
    phase,       \* "start" | "factory" (make_spy returned) | "failed" (it raised)
    ctorCount,   \* how many times target was called / constructed
    instance,    \* make_spy's local `instance` (an object id, None before line 104)
    instState,   \* the attribute `a` of the constructed instance
    instLog,     \* the calls that reached the real instance, in order
    factory,     \* the _SpyFactory object: its _instance and __name__
    proxies,     \* the spies returned so far (the index is the object identity)
    last,        \* what the last operation did: returned or raised
    \* ---- AsyncContextManagerMock ----
    acms,        \* the AsyncContextManagerMock objects created so far
    alast,       \* what the last awaited operation resolved to
    \* ---- is_subset_of ----
    superset, subset, \* the two arguments
    spc,         \* "input" | "done"
    dsup, dsub,  \* dict(superset), dict(subset) as built by the call
    sresult      \* the value returned

spyVars == <<target, phase, ctorCount, instance, instState, instLog, factory, proxies, last>>
asyncVars == <<acms, alast>>
subsetVars == <<superset, subset, spc, dsup, dsub, sresult>>
vars == <<spyVars, asyncVars, subsetVars>>

(***************************************************************************)
(* Bounds of the model.                                                    *)
(***************************************************************************)
MaxProxies == 2
MaxCalls == 2
MaxAcms == 2
MaxOps == 3
MaxLen == 2

(***************************************************************************)
(* The objects a caller can hand to make_spy, and what Python says of them.*)
(*   "T"  a plain class                      type(T) is type               *)
(*   "A"  a class deriving from abc.ABC      type(A) is ABCMeta            *)
(*   "C"  a class with another metaclass     type(C) is Meta               *)
(*   "f"  a plain function                   type(f) is FunctionType       *)
(*   "t"  an instance of T                   type(t) is T                  *)
(* "U" is an unrelated class a caller may name in spec= / spec_set=.       *)
(* "R" is a class that is itself an async context manager: it defines      *)
(* __aenter__ and __aexit__ (used with AsyncContextManagerMock only).      *)
(***************************************************************************)
Targets == {"T", "A", "C", "f", "t"}

TypeOf(x) ==
    CASE x = "T" -> "type"
      [] x = "A" -> "ABCMeta"
      [] x = "C" -> "Meta"
      [] x = "f" -> "FunctionType"
      [] x = "t" -> "T"
      [] x = "U" -> "type"
      [] x = "R" -> "type"
      [] OTHER -> "object"

\* isinstance(x, type): x is a class, whatever its metaclass
IsClass(x) == TypeOf(x) \in {"type", "ABCMeta", "Meta"}

\* the member names a test may touch
Names == {"m", "n", "x"}

\* dir(cls) restricted to Names: the contract of a class
Members(cls) ==
    CASE cls \in {"T", "A", "C"} -> {"m", "n"}
      [] cls = "U" -> {"x"}
      [] cls = "R" -> {"m", "__aenter__", "__aexit__"}
      [] OTHER -> {}

\* the arguments of a call
Args == {1, 2}
\* the constructor arguments of make_spy (target_args)
CtorArgs == {0, 1}

\* object identities: None, the n-th object constructed from target, and an
\* unrelated object a caller may pass as wraps=
NoneId == <<"None", 0>>
InstId(n) == <<"instance", n>>
OtherObj == <<"other", 0>>
NoValue == [kind |-> "none", v |-> 0]
MockDefault == [kind |-> "mock", v |-> 0]
Foreign == [kind |-> "foreign", v |-> 0]
Real(v) == [kind |-> "real", v |-> v]
Configured(v) == [kind |-> "configured", v |-> v]

\* no keyword arguments
KwNone == [k \in {} |-> 0]

\* the record of an operation: what was called with what, and how it ended
NoLast == [op |-> "none", proxy |-> 0, member |-> "", arg |-> 0, kwargs |-> KwNone,
           outcome |-> "none", exc |-> "", value |-> NoValue]
CallLast(i, name, a) == [NoLast EXCEPT !.op = "call", !.proxy = i, !.member = name, !.arg = a]

(***************************************************************************)
(* make_spy, lines 97-104 and 123-145.                                     *)
(***************************************************************************)
TypeError(received, expected) ==
    [type |-> "TypeError", received |-> received, expected |-> expected]

\* a variant of the guard that lets every target through to line 104
TargetCheckNoGuard(tgt) == [type |-> "ok", received |-> "", expected |-> ""]

\* lines 97-102: the guard on type(target).  "ok", or the TypeError raised.
TargetCheck(tgt) ==
    IF TypeOf(tgt) \notin {"type", "ABCMeta"}
    THEN IF TypeOf(tgt) = "FunctionType"
         THEN TypeError("FunctionType", "class")
         ELSE TypeError(TypeOf(tgt), TypeOf(tgt))
    ELSE [type |-> "ok", received |-> "", expected |-> ""]

\* line 104: instance = target(target_args, target_kwargs)
Construct(tgt, a) ==
    /\ ctorCount' = ctorCount + 1
    /\ instance' = InstId(ctorCount + 1)
    /\ instState' = a

\* lines 123-124: _factory = _SpyFactory(instance); _factory.__name__ = ...
NewFactory(tgt, inst) == [_instance |-> inst, __name__ |-> <<tgt, "SpyFactory">>]

NoFactory == [_instance |-> NoneId, __name__ |-> <<"", "">>]

make_spy(a) ==
    /\ phase = "start"
    /\ LET chk == TargetCheck(target) IN
       IF chk.type # "ok"
       THEN /\ phase' = "failed"
            /\ last' = [NoLast EXCEPT !.op = "make_spy", !.outcome = "raise", !.arg = a,
                                      !.exc = chk.type, !.member = chk.received]
            /\ UNCHANGED <<ctorCount, instance, instState, factory>>
       ELSE /\ Construct(target, a)
            /\ factory' = NewFactory(target, instance')
            /\ phase' = "factory"
            /\ last' = [NoLast EXCEPT !.op = "make_spy", !.outcome = "return", !.arg = a]
    /\ UNCHANGED <<target, instLog, proxies>>

(***************************************************************************)
(* The caller's keyword arguments to the factory, as key -> value maps.    *)
(***************************************************************************)
Reserved == {"spec", "spec_set", "wraps"}

\* a reference to the class named c, as a keyword value
ClassRef(c) == <<c, 0>>
\* a name of the caller's, and values of the caller's for the three keywords
\* the factory sets itself
KwCustom == [k \in Reserved \cup {"name"} |->
                CASE k = "name" -> <<"Custom", "">>
                  [] k = "spec" -> ClassRef("U")
                  [] k = "spec_set" -> NoneId
                  [] k = "wraps" -> OtherObj]
KwReturn == [k \in {"m.return_value"} |-> 99]
KwAttr == [k \in {"x"} |-> 3]
KwargsSet == {KwNone, KwCustom, KwReturn, KwAttr}

\* dict unpacking {**base, **over}: the later mapping wins key by key
Merge(base, over) ==
    [k \in DOMAIN base \cup DOMAIN over |->
        IF k \in DOMAIN over THEN over[k] ELSE base[k]]

\* variants of line 116: wrapping a second object built from the target,
\* leaving wraps out, and leaving spec_set out
OverrideCopy(tgt, inst) ==
    [k \in Reserved |-> IF k = "wraps" THEN InstId(inst[2] + 1) ELSE ClassRef(tgt)]
OverrideNoWraps(tgt, inst) ==
    [k \in Reserved |-> IF k = "wraps" THEN NoneId ELSE ClassRef(tgt)]
OverrideSpecOnly(tgt, inst) ==
    [k \in {"spec", "wraps"} |-> IF k = "wraps" THEN inst ELSE ClassRef(tgt)]

\* line 116
Override(tgt, inst) ==
    [k \in Reserved |-> IF k = "wraps" THEN inst ELSE ClassRef(tgt)]

\* line 117: {"name": f"{target.__name__}()", **kwargs, **override}
DefaultName(tgt) == [k \in {"name"} |-> <<tgt, "()">>]

\* a variant of line 117 in which the caller's keywords are applied last
MergeKwCallerWins(tgt, kwargs, override) ==
    Merge(Merge(DefaultName(tgt), override), kwargs)

MergeKw(tgt, kwargs, override) ==
    Merge(Merge(DefaultName(tgt), kwargs), override)

(***************************************************************************)
(* The wrapper call of line 118: what Mock.__init__ makes of the           *)
(* configuration it is handed.                                             *)
(***************************************************************************)
Get(kw, k) == IF k \in DOMAIN kw THEN kw[k] ELSE NoneId

\* spec_set, when given, takes the place of spec (and makes the mock strict)
MockSpecClass(kw) ==
    IF Get(kw, "spec_set") # NoneId THEN Get(kw, "spec_set")[1]
    ELSE IF Get(kw, "spec") # NoneId THEN Get(kw, "spec")[1]
    ELSE "None"

MockStrict(kw) == Get(kw, "spec_set") # NoneId

\* _mock_methods = dir(spec); no spec, no restriction
MockContract(kw) ==
    IF MockSpecClass(kw) = "None" THEN Names ELSE Members(MockSpecClass(kw))

\* configure_mock(kwargs) over the keywords Mock.__init__ does not name:
\* "m.return_value" reads attribute m first; a plain key is a setattr, which
\* a strict mock refuses outside its contract.
MockInitRaises(kw) ==
    \/ "m.return_value" \in DOMAIN kw /\ "m" \notin MockContract(kw)
    \/ "x" \in DOMAIN kw /\ MockStrict(kw) /\ "x" \notin MockContract(kw)

MockNew(wrapper, kw) ==
    [wrapper |-> wrapper,
     kw |-> kw,
     spec_class |-> MockSpecClass(kw),
     contract |-> MockContract(kw),
     wraps |-> Get(kw, "wraps"),
     name |-> Get(kw, "name"),
     attrs |-> {k \in DOMAIN kw : k = "x"},
     rv |-> [n \in Names |-> IF n = "m" /\ "m.return_value" \in DOMAIN kw
                             THEN Configured(kw["m.return_value"]) ELSE NoValue],
     doc |-> "",
     log |-> <<>>]

\* isinstance(proxy, cls): Mock.__class__ answers with the spec class
IsInstance(p, cls) == p.spec_class = cls

(***************************************************************************)
(* _SpyFactory.__call__, lines 115-121.                                    *)
(***************************************************************************)
\* instance.__doc__ is the class docstring
Doc(tgt) == <<"doc of", tgt>>

\* a variant of __call__ that hands out the spy it made first
CallCached(kwargs) ==
    /\ phase = "factory"
    /\ Len(proxies) < MaxProxies
    /\ LET kw == MergeKw(target, kwargs, Override(target, instance))
       IN IF MockInitRaises(kw)
          THEN /\ last' = [NoLast EXCEPT !.op = "factory", !.outcome = "raise",
                                         !.exc = "AttributeError", !.kwargs = kwargs]
               /\ UNCHANGED proxies
          ELSE IF proxies # <<>>
          THEN /\ last' = [NoLast EXCEPT !.op = "factory", !.outcome = "return",
                                         !.proxy = 1, !.kwargs = kwargs]
               /\ UNCHANGED proxies
          ELSE /\ proxies' = Append(proxies,
                                [MockNew("MagicMock", kw) EXCEPT !.doc = Doc(target)])
               /\ last' = [NoLast EXCEPT !.op = "factory", !.outcome = "return",
                                         !.proxy = Len(proxies) + 1, !.kwargs = kwargs]
    /\ UNCHANGED <<target, phase, ctorCount, instance, instState, instLog, factory>>

__call__(kwargs) ==
    /\ phase = "factory"
    /\ Len(proxies) < MaxProxies
    /\ LET override == Override(target, instance)
           kw == MergeKw(target, kwargs, override)
       IN IF MockInitRaises(kw)
          THEN /\ last' = [NoLast EXCEPT !.op = "factory", !.outcome = "raise",
                                         !.exc = "AttributeError", !.kwargs = kwargs]
               /\ UNCHANGED proxies
          ELSE /\ proxies' = Append(proxies,
                                [MockNew("MagicMock", kw) EXCEPT !.doc = Doc(target)])
               /\ last' = [NoLast EXCEPT !.op = "factory", !.outcome = "return",
                                         !.proxy = Len(proxies) + 1, !.kwargs = kwargs]
    /\ UNCHANGED <<target, phase, ctorCount, instance, instState, instLog, factory>>

(***************************************************************************)
(* Using a spy: proxy.name(a).  Mock.__getattr__ polices the contract,     *)
(* the child mock records the call on the proxy and, having no configured  *)
(* return value, passes it on to the same-named member of wraps.           *)
(***************************************************************************)
\* the methods of the target classes: m(x) adds x to self.a and returns it,
\* n(x) returns x + 10 and leaves the instance alone
MethodState(name, a, st) == IF name = "m" THEN st + a ELSE st
MethodResult(name, a, st) == IF name = "m" THEN st + a ELSE a + 10

RECURSIVE SumLogs(_)
SumLogs(ps) == IF ps = <<>> THEN 0 ELSE Len(Head(ps).log) + SumLogs(Tail(ps))

MockAllows(p, name) == name \in p.contract \/ name \in p.attrs

ProxyCall(i, name, a) ==
    /\ phase = "factory"
    /\ i \in 1..Len(proxies)
    /\ LET p == proxies[i] IN
       IF ~MockAllows(p, name)
       THEN \* AttributeError out of Mock.__getattr__, before the call is made
            /\ last' = [CallLast(i, name, 0) EXCEPT !.outcome = "raise",
                                                     !.exc = "AttributeError"]
            /\ UNCHANGED <<proxies, instState, instLog>>
       ELSE /\ SumLogs(proxies) < MaxCalls
            /\ proxies' = [proxies EXCEPT ![i].log = Append(@, <<name, a>>)]
            /\ IF name \in p.attrs
               THEN \* an attribute set through the constructor: a plain value
                    /\ last' = [CallLast(i, name, a) EXCEPT !.outcome = "return",
                                                             !.value = Configured(p.kw[name])]
                    /\ UNCHANGED <<instState, instLog>>
               ELSE IF p.rv[name] # NoValue
               THEN \* a configured return value: wraps is not consulted
                    /\ last' = [CallLast(i, name, a) EXCEPT !.outcome = "return",
                                                             !.value = p.rv[name]]
                    /\ UNCHANGED <<instState, instLog>>
               ELSE IF p.wraps = instance /\ instance # NoneId
               THEN \* forwarded to the real instance
                    /\ instState' = MethodState(name, a, instState)
                    /\ instLog' = Append(instLog, <<name, a>>)
                    /\ last' = [CallLast(i, name, a) EXCEPT !.outcome = "return",
                                      !.value = Real(MethodResult(name, a, instState))]
               ELSE \* another wrapped object, or none: not the instance's result
                    /\ last' = [CallLast(i, name, a) EXCEPT !.outcome = "return",
                                      !.value = IF p.wraps = NoneId THEN MockDefault ELSE Foreign]
                    /\ UNCHANGED <<instState, instLog>>
    /\ UNCHANGED <<target, phase, ctorCount, instance, factory>>

(***************************************************************************)
(* Specification Spec: a test that builds a factory and uses its spies.    *)
(***************************************************************************)
AsyncIdle == acms = <<>> /\ alast = [op |-> "none", obj |-> 0, result |-> <<"None", 0>>]
SubsetIdle ==
    /\ superset = <<"seq", <<>>>> /\ subset = <<"seq", <<>>>> /\ spc = "idle"
    /\ dsup = <<>> /\ dsub = <<>> /\ sresult = FALSE

SpyIdle ==
    /\ target = "T" /\ phase = "idle" /\ ctorCount = 0 /\ instance = NoneId
    /\ instState = 0 /\ instLog = <<>> /\ factory = NoFactory
    /\ proxies = <<>> /\ last = NoLast

Init ==
    /\ target \in Targets
    /\ phase = "start"
    /\ ctorCount = 0
    /\ instance = NoneId
    /\ instState = 0
    /\ instLog = <<>>
    /\ factory = NoFactory
    /\ proxies = <<>>
    /\ last = NoLast
    /\ AsyncIdle
    /\ SubsetIdle

Next ==
    \/ \E a \in CtorArgs : make_spy(a) /\ UNCHANGED <<asyncVars, subsetVars>>
    \/ \E kwargs \in KwargsSet : __call__(kwargs) /\ UNCHANGED <<asyncVars, subsetVars>>
    \/ \E i \in 1..MaxProxies, name \in Names, a \in Args :
          ProxyCall(i, name, a) /\ UNCHANGED <<asyncVars, subsetVars>>

Spec == Init /\ [][Next]_vars

(***************************************************************************)
(* AsyncContextManagerMock, lines 148-162.                                 *)
(*                                                                         *)
(* The class derives from MagicMock (line 148).  MagicMock.__init__ gives  *)
(* every instance a class of its own and sets on it a configured mock for  *)
(* each magic method its spec allows, __aenter__ and __aexit__ among them: *)
(* with no spec, or a spec that has these two names, the configured mocks  *)
(* are what `await obj.__aenter__()` and `async with obj` find, and the    *)
(* methods of lines 149-162 are shadowed.  With a spec that lacks them     *)
(* (a spy on a class that is no context manager) nothing is installed and  *)
(* the methods of lines 149-162 run.                                       *)
(***************************************************************************)
MagicInstalled(kw, name) ==
    \/ MockSpecClass(kw) = "None"
    \/ name \in Members(MockSpecClass(kw))

\* object identities and values an awaited call resolves to
AcmObj(i) == <<"acm", i>>
ChildMock(i) == <<"child mock of", i>>
PyFalse == <<"False", 0>>
FinishedFuture == <<"Future", 0>>

\* bool(v): False and None are falsy; a Future or a mock object is truthy
Truthy(v) == v[1] \notin {"False", "None"}

\* the exception descriptor (exc_type, exc, tb) handed to __aexit__
ExcSet == {"None", "ValueError"}

\* line 151: return self
__aenter__(i) == AcmObj(i)

\* lines 160-162: result = Future(); result.set_result(None); return result
__aexit__(i, exc) == FinishedFuture

SumOps(os) == SumLogs([k \in 1..Len(os) |-> [log |-> os[k].ops]])

\* AsyncContextManagerMock()
AcmBare ==
    /\ Len(acms) < MaxAcms
    /\ acms' = Append(acms, [kw |-> KwNone, ops |-> <<>>, log |-> <<>>])
    /\ alast' = [op |-> "new", obj |-> Len(acms) + 1, result |-> AcmObj(Len(acms) + 1)]

\* make_spy(tgt, wrapper=AsyncContextManagerMock)()
AcmSpied(tgt) ==
    /\ Len(acms) < MaxAcms
    /\ TargetCheck(tgt).type = "ok"
    /\ acms' = Append(acms, [kw |-> MergeKw(tgt, KwNone, Override(tgt, InstId(1))),
                             ops |-> <<>>, log |-> <<>>])
    /\ alast' = [op |-> "new", obj |-> Len(acms) + 1, result |-> AcmObj(Len(acms) + 1)]

\* await obj.__aenter__()
Enter(i) ==
    /\ i \in 1..Len(acms)
    /\ SumOps(acms) < MaxOps
    /\ IF MagicInstalled(acms[i].kw, "__aenter__")
       THEN /\ acms' = [acms EXCEPT ![i].ops = Append(@, "enter"),
                                    ![i].log = Append(@, <<"__aenter__", "">>)]
            /\ alast' = [op |-> "enter", obj |-> i, result |-> ChildMock(i)]
       ELSE /\ acms' = [acms EXCEPT ![i].ops = Append(@, "enter")]
            /\ alast' = [op |-> "enter", obj |-> i, result |-> __aenter__(i)]

\* await obj.__aexit__(exc_type, exc, tb)
Exit(i, exc) ==
    /\ i \in 1..Len(acms)
    /\ SumOps(acms) < MaxOps
    /\ IF MagicInstalled(acms[i].kw, "__aexit__")
       THEN /\ acms' = [acms EXCEPT ![i].ops = Append(@, "exit"),
                                    ![i].log = Append(@, <<"__aexit__", exc>>)]
            /\ alast' = [op |-> "exit", obj |-> i, result |-> PyFalse]
       ELSE /\ acms' = [acms EXCEPT ![i].ops = Append(@, "exit")]
            /\ alast' = [op |-> "exit", obj |-> i, result |-> __aexit__(i, exc)]

InitAsync ==
    /\ acms = <<>>
    /\ alast = [op |-> "none", obj |-> 0, result |-> <<"None", 0>>]
    /\ SpyIdle
    /\ SubsetIdle

NextAsync ==
    \/ AcmBare /\ UNCHANGED <<spyVars, subsetVars>>
    \/ \E tgt \in {"T", "R"} : AcmSpied(tgt) /\ UNCHANGED <<spyVars, subsetVars>>
    \/ \E i \in 1..MaxAcms : Enter(i) /\ UNCHANGED <<spyVars, subsetVars>>
    \/ \E i \in 1..MaxAcms, exc \in ExcSet : Exit(i, exc) /\ UNCHANGED <<spyVars, subsetVars>>

SpecAsync == InitAsync /\ [][NextAsync]_vars

(***************************************************************************)
(* is_subset_of, lines 17-19.                                              *)
(* A collection is <<form, content>>: a sequence of (key, value) pairs     *)
(* (tuple or list), a set of pairs, or a dict (a function on its keys).    *)
(***************************************************************************)
Keys == {"a", "b"}
Vals == {1, 2}
Pairs == Keys \X Vals
Forms == {"seq", "set", "dict"}

SeqsUpTo(n) == UNION {[1..k -> Pairs] : k \in 0..n}
DictsOver == UNION {[D -> Vals] : D \in SUBSET Keys}

Collections(form) ==
    CASE form = "seq" -> {<<form, s>> : s \in SeqsUpTo(MaxLen)}
      [] form = "set" -> {<<form, S>> : S \in SUBSET Pairs}
      [] form = "dict" -> {<<form, d>> : d \in DictsOver}

EmptyDict == [k \in {} |-> 0]

\* d[k] = v on a dict
DictSet(d, k, v) == [x \in DOMAIN d \cup {k} |-> IF x = k THEN v ELSE d[x]]

\* a variant of dict(pairs) in which the first pair of a key is kept
RECURSIVE DictFromPairsFirstWins(_, _)
DictFromPairsFirstWins(d, s) ==
    IF s = <<>> THEN d
    ELSE IF Head(s)[1] \in DOMAIN d
    THEN DictFromPairsFirstWins(d, Tail(s))
    ELSE DictFromPairsFirstWins(DictSet(d, Head(s)[1], Head(s)[2]), Tail(s))

\* dict(pairs): the pairs are inserted in iteration order
RECURSIVE DictFromPairs(_, _)
DictFromPairs(d, s) ==
    IF s = <<>> THEN d
    ELSE DictFromPairs(DictSet(d, Head(s)[1], Head(s)[2]), Tail(s))

\* the orders in which a set may be iterated
IterationOrders(S) ==
    {s \in [1..Cardinality(S) -> S] : {s[i] : i \in 1..Cardinality(S)} = S}

\* dict(c): the mappings the conversion can produce
ToDict(c) ==
    CASE c[1] = "seq" -> {DictFromPairs(EmptyDict, c[2])}
      [] c[1] = "set" -> {DictFromPairs(EmptyDict, s) : s \in IterationOrders(c[2])}
      [] c[1] = "dict" -> {c[2]}

\* a.items() <= b.items(): the set comparison of two items views
ItemsLE(a, b) ==
    /\ Cardinality(DOMAIN a) <= Cardinality(DOMAIN b)
    /\ \A k \in DOMAIN a : k \in DOMAIN b /\ b[k] = a[k]

\* line 19: return dict(subset).items() <= dict(superset).items()
is_subset_of ==
    /\ spc = "input"
    /\ dsub' \in ToDict(subset)
    /\ dsup' \in ToDict(superset)
    /\ sresult' = ItemsLE(dsub', dsup')
    /\ spc' = "done"
    /\ UNCHANGED <<superset, subset>>

InitSubset ==
    /\ \E f \in Forms : superset \in Collections(f)
    /\ \E f \in Forms : subset \in Collections(f)
    /\ spc = "input"
    /\ dsup = EmptyDict
    /\ dsub = EmptyDict
    /\ sresult = FALSE
    /\ SpyIdle
    /\ AsyncIdle

NextSubset == is_subset_of /\ UNCHANGED <<spyVars, asyncVars>>

SpecSubset == InitSubset /\ [][NextSubset]_vars

(***************************************************************************)
(* Properties of make_spy and its factory, checked under Spec.             *)
(***************************************************************************)

\* C1: once make_spy has returned, the target has been constructed exactly
\* once, factory.instance is that object, and every spy made so far wraps it.
C1_OneInstance ==
    phase = "factory" =>
        /\ ctorCount = 1
        /\ instance = InstId(1)
        /\ factory._instance = InstId(1)
        /\ \A i \in 1..Len(proxies) : proxies[i].wraps = factory._instance

C1_Witness ==
    /\ phase = "factory"
    /\ Len(proxies) >= 2
    /\ proxies[1].kw # proxies[2].kw
    /\ instLog # <<>>

C3_ContractViolation ==
    [][(last'.op = "call" /\ last'.member \notin Members(target))
       => /\ last'.outcome = "raise"
          /\ last'.exc = "AttributeError"
          /\ instLog' = instLog
          /\ instState' = instState
          /\ proxies' = proxies]_vars

C3_Witness ==
    /\ last.op = "call"
    /\ last.member = "x"
    /\ last.outcome = "raise"
    /\ proxies[last.proxy].name = <<"Custom", "">>
    /\ instLog # <<>>

\* C4: the configuration handed to the wrapper has spec = spec_set = target
\* and wraps = instance whatever the caller passed for them, every other
\* keyword of the caller's is passed on unchanged, a caller's spec, spec_set
\* or wraps raises nothing, and the name is the default exactly when the
\* caller gave none.
C4_ReservedForced ==
    /\ \A i \in 1..Len(proxies) :
          /\ proxies[i].kw["spec"] = ClassRef(target)
          /\ proxies[i].kw["spec_set"] = ClassRef(target)
          /\ proxies[i].kw["wraps"] = instance
    /\ (last.op = "factory" /\ last.outcome = "return") =>
          LET kw == proxies[last.proxy].kw IN
          /\ DOMAIN kw = DOMAIN last.kwargs \cup Reserved \cup {"name"}
          /\ \A k \in DOMAIN last.kwargs \ Reserved : kw[k] = last.kwargs[k]
          /\ "name" \notin DOMAIN last.kwargs => kw["name"] = <<target, "()">>
    /\ (last.op = "factory" /\ last.outcome = "raise") =>
          DOMAIN last.kwargs \cap Reserved = {}

C4_Witness ==
    /\ last.op = "factory"
    /\ last.outcome = "return"
    /\ last.kwargs = KwCustom
    /\ proxies[last.proxy].kw["name"] = <<"Custom", "">>
    /\ Len(proxies) >= 2
    /\ proxies[1].kw["name"] = <<target, "()">>

\* C5: a factory call returns a spy that did not exist before, with an empty
\* log, and leaves the others as they were; a call on one spy adds to the
\* log of that spy only.
C5_IndependentLogs ==
    [][/\ (last'.op = "factory" /\ last'.outcome = "return")
          => /\ Len(proxies') = Len(proxies) + 1
             /\ last'.proxy = Len(proxies')
             /\ proxies'[last'.proxy].log = <<>>
             /\ \A j \in 1..Len(proxies) : proxies'[j] = proxies[j]
       /\ last'.op = "call"
          => /\ Len(proxies') = Len(proxies)
             /\ \A j \in 1..Len(proxies) :
                   j # last'.proxy => proxies'[j].log = proxies[j].log
             /\ last'.outcome = "return"
                   => Len(proxies'[last'.proxy].log) = Len(proxies[last'.proxy].log) + 1]_vars

C5_Witness ==
    /\ Len(proxies) >= 2
    /\ proxies[1].wraps = proxies[2].wraps
    /\ proxies[1].log # <<>>
    /\ proxies[2].log = <<>>
    /\ instLog # <<>>

\* C6: for a plain function or an instance, make_spy raises TypeError, the
\* target has not been called or constructed, and there is no factory.
C6_InvalidTarget ==
    (target \in {"f", "t"} /\ phase # "start") =>
        /\ phase = "failed"
        /\ last.op = "make_spy"
        /\ last.outcome = "raise"
        /\ last.exc = "TypeError"
        /\ ctorCount = 0
        /\ instance = NoneId
        /\ factory = NoFactory
        /\ proxies = <<>>

C6_Witness ==
    /\ target = "f"
    /\ phase = "failed"
    /\ last.exc = "TypeError"
    /\ last.arg = 1

\* C7: for every class, whatever its metaclass, make_spy returns a factory
\* and each spy of it is an instance of the class.
C7_AnyClass ==
    (IsClass(target) /\ phase # "start") =>
        /\ phase = "factory"
        /\ \A i \in 1..Len(proxies) : IsInstance(proxies[i], target)

(***************************************************************************)
(* Properties of AsyncContextManagerMock, checked under SpecAsync.         *)
(***************************************************************************)

\* C8: whatever was called before and whatever the exception descriptor,
\* awaiting __aexit__ gives a falsy value, so no exception is swallowed.
C8_ExitFalsy == alast.op = "exit" => ~Truthy(alast.result)

\* C9: in any order and any number of times, awaiting __aenter__ gives the
\* very object it was called on.
C9_EnterSelf == alast.op = "enter" => alast.result = AcmObj(alast.obj)

(***************************************************************************)
(* Properties of is_subset_of, checked under SpecSubset.                   *)
(***************************************************************************)
KeysOfPairs(S) == {pr[1] : pr \in S}
RangeOf(s) == {s[i] : i \in 1..Len(s)}
LastIndex(s, k) == CHOOSE i \in 1..Len(s) :
                       s[i][1] = k /\ \A j \in (i + 1)..Len(s) : s[j][1] # k
\* the mapping(s) a collection stands for: the last pair of each key of a
\* sequence, one pair for each key of a set, the dict itself
MappingsOf(c) ==
    CASE c[1] = "seq" -> {[k \in KeysOfPairs(RangeOf(c[2])) |-> c[2][LastIndex(c[2], k)][2]]}
      [] c[1] = "set" -> {d \in DictsOver : /\ DOMAIN d = KeysOfPairs(c[2])
                                            /\ \A k \in DOMAIN d : <<k, d[k]>> \in c[2]}
      [] c[1] = "dict" -> {c[2]}
ItemsOf(d) == {<<k, d[k]>> : k \in DOMAIN d}

\* C10: the call turns both arguments into mappings (the later pair of a key
\* in a sequence wins), answers whether every pair of subset's mapping is a
\* pair of superset's mapping, answers TRUE for an empty subset, and leaves
\* both arguments as they were.
C10_SubsetIff ==
    [][spc' = "done" =>
        /\ superset' = superset
        /\ subset' = subset
        /\ dsub' \in MappingsOf(subset)
        /\ dsup' \in MappingsOf(superset)
        /\ sresult' = (ItemsOf(dsub') \subseteq ItemsOf(dsup'))
        /\ (DOMAIN dsub' = {} => sresult')]_vars

C10_Witness ==
    /\ spc = "done"
    /\ subset[1] = "seq"
    /\ subset[2] = <<(<<"a", 1>>), (<<"a", 2>>)>>
    /\ superset[1] = "dict"
    /\ superset[2] = [k \in Keys |-> IF k = "a" THEN 2 ELSE 1]
    /\ sresult

====
